---- MODULE Spec2Model ----
(***************************************************************************)
(* MetHAL (src/index.js): the cursor-paginated stream ApiHalStream, the     *)
(* query compiler buildQuery and the single-shot calls query, find and     *)
(* findOne.                                                                *)
(*                                                                         *)
(* The stream: a state machine for two stream instances, the options objects they    *)
(* were constructed from, the page requests in flight and a search backend *)
(* that answers each request with a page of a static, sorted result set    *)
(* (possibly a short page, with any numFound), or with a failure.          *)
(*                                                                         *)
(* Documents are the integers 1..total in sort order.  A cursor mark is    *)
(* the number of documents that precede the page it opens; the start       *)
(* sentinel '*' is the mark 0.                                             *)
(***************************************************************************)
EXTENDS Integers, Sequences, FiniteSets, TLC

\* ---------------------------------------------------------------- bounds
MaxFound == 3
MaxPage == 2
MaxPulls == 2
\* Descriptors: keys of a mapping, elements of a list.
MaxKeys == 3
MaxElems == 2
\* documents in the body of a single-shot response
MaxDocs == 2

\* Ghost counters stop counting here, so that a fetch loop that never ends
\* is a cycle of the state graph.
MaxReq == MaxFound + 2

\* ------------------------------------------------------- program constants
\* this.params.cursorMark = '*'
StartMark == 0
\* this.params.rows = 1000
RowsParam == 1000
\* if (response.status !== 200)
OkStatus == 200
\* this.params.sort = 'docid asc'
SortParam == "docid asc"

Inst == {"s1", "s2"}
Obj == {"o1", "o2"}
NoObj == "none"
NoFound == 0 - 1

\* What a caller may hand to the constructor: the default {q: '*'} (no sort,
\* rows or cursorMark of its own) or an object that already carries them.
CallerOptions ==
  { [sort |-> "unset", rows |-> 0, cursorMark |-> NoFound],
    [sort |-> "score desc", rows |-> 10, cursorMark |-> 1] }

VARIABLES
  total,      \* backend: number of matching documents (static data)
  params,     \* heap: the options objects, params[o] is the object's fields
  opt,        \* this.params of each instance: the object it refers to
  reading,    \* this.reading
  counter,    \* this.counter
  flight,     \* requests issued by axios.get and not yet answered
  emitted,    \* documents handed to self.push, in order
  eof,        \* number of self.push(null) calls
  errors,     \* number of 'error' events emitted
  nreq,       \* history: page requests issued
  npull,      \* history: pulls received from the consumer
  firstFound, \* history: numFound of the first successful page
  lastFound,  \* history: numFound of the latest successful page
  received,   \* history: docs arrays of the successful pages, concatenated
  ownMark,    \* history: '*' or the nextCursorMark of the instance's latest page
  faithful,   \* history: every page so far was the full page with numFound = total
  late,       \* history: a pull arrived after end-of-data or after an error
  search,     \* buildQuery: the descriptor handed to the compiler
  operator,   \* buildQuery: the ambient operator of the top level
  result,     \* buildQuery: what the call produced (NotRun before it)
  api,        \* single-shot call: the function called, query, find or findOne
  given,      \* single-shot call: options.rows as the caller passed it
  throws,     \* single-shot call: when the caller's callback throws
  wire,       \* single-shot call: where the promise of axios.get stands
  request,    \* single-shot call: q and rows of the url handed to axios.get
  answer,     \* single-shot call: what the transport settled the request with
  invoked     \* single-shot call: the invocations of the caller's callback

vars == << total, params, opt, reading, counter, flight, emitted, eof, errors,
           nreq, npull, firstFound, lastFound, received, ownMark, faithful, late,
           search, operator, result,
           api, given, throws, wire, request, answer, invoked >>

\* The variables of the compiler; the stream leaves them alone.
pure == << search, operator, result >>

\* The variables of a single-shot call.
single == << api, given, throws, wire, request, answer, invoked >>

aside == << pure, single >>

hist == << firstFound, lastFound, received, ownMark, faithful >>

streams == << total, params, opt, reading, counter, flight, emitted, eof,
              errors, nreq, npull, hist, late >>

\* ------------------------------------------------------------- helpers
Min(a, b) == IF a < b THEN a ELSE b

Bump(n) == Min(n + 1, MaxReq)

RemoveAt(s, k) == SubSeq(s, 1, k - 1) \o SubSeq(s, k + 1, Len(s))

Range(a, b) == [j \in 1..(IF b >= a THEN b - a + 1 ELSE 0) |-> a + j - 1]

Reverse(s) == [j \in 1..Len(s) |-> s[Len(s) + 1 - j]]

\* The backend's page for a request: the documents after the cursor mark, at
\* most rows of them (the page size is scaled down to MaxPage documents).
StaticPage(req) ==
  Range(req.cursorMark + 1, Min(req.cursorMark + Min(req.rows, MaxPage), total))

\* `${this.urlBase}/?${querystring.stringify(this.params)}`: the request
\* carries the fields the options object has at the time of the call.
Url(o) == params[o]

\* ---------------------------------------------------------------- Init
\* No compiler call is under way.
NotRun == [err |-> FALSE, out |-> << "not run" >>]

PureIdle ==
  /\ search = [t |-> "null", v |-> 0]
  /\ operator = "AND"
  /\ result = NotRun

\* No single-shot call is under way.
NoRequest == [q |-> "", rows |-> "unset"]

NoAnswer == [outcome |-> "none", status |-> 0,
             body |-> [shape |-> "null", docs |-> << >>]]

CallIdle ==
  /\ api = "none"
  /\ given = "unset"
  /\ throws = "never"
  /\ wire = "idle"
  /\ request = NoRequest
  /\ answer = NoAnswer
  /\ invoked = << >>

\* No stream has been constructed.
StreamIdle ==
  /\ opt = [i \in Inst |-> NoObj]
  /\ reading = [i \in Inst |-> FALSE]
  /\ counter = [i \in Inst |-> 0]
  /\ flight = [i \in Inst |-> << >>]
  /\ emitted = [i \in Inst |-> << >>]
  /\ eof = [i \in Inst |-> 0]
  /\ errors = [i \in Inst |-> 0]
  /\ nreq = [i \in Inst |-> 0]
  /\ npull = [i \in Inst |-> 0]
  /\ firstFound = [i \in Inst |-> NoFound]
  /\ lastFound = [i \in Inst |-> NoFound]
  /\ received = [i \in Inst |-> << >>]
  /\ ownMark = [i \in Inst |-> StartMark]
  /\ faithful = [i \in Inst |-> TRUE]
  /\ late = [i \in Inst |-> FALSE]

Init ==
  /\ PureIdle
  /\ CallIdle
  /\ total \in 0..MaxFound
  /\ params \in [Obj -> CallerOptions]
  /\ opt = [i \in Inst |-> NoObj]
  /\ reading = [i \in Inst |-> FALSE]
  /\ counter = [i \in Inst |-> 0]
  /\ flight = [i \in Inst |-> << >>]
  /\ emitted = [i \in Inst |-> << >>]
  /\ eof = [i \in Inst |-> 0]
  /\ errors = [i \in Inst |-> 0]
  /\ nreq = [i \in Inst |-> 0]
  /\ npull = [i \in Inst |-> 0]
  /\ firstFound = [i \in Inst |-> NoFound]
  /\ lastFound = [i \in Inst |-> NoFound]
  /\ received = [i \in Inst |-> << >>]
  /\ ownMark = [i \in Inst |-> StartMark]
  /\ faithful = [i \in Inst |-> TRUE]
  /\ late = [i \in Inst |-> FALSE]

\* ------------------------------------------------------------ constructor
\* new ApiHalStream(options): this.params = options keeps the caller's
\* object, and the three assignments write into that object.
Constructor(i, o) ==
  /\ opt[i] = NoObj
  /\ opt' = [opt EXCEPT ![i] = o]
  /\ reading' = [reading EXCEPT ![i] = FALSE]
  /\ counter' = [counter EXCEPT ![i] = 0]
  /\ params' = [params EXCEPT ![o] =
                  [sort |-> SortParam, cursorMark |-> StartMark, rows |-> RowsParam]]
  /\ UNCHANGED << total, flight, emitted, eof, errors, nreq, npull, hist, late, aside >>

\* ------------------------------------------------------------------ _read
\* if (this.reading) return false;
ReadGuardOff(i) == FALSE

ReadGuard(i) == reading[i]

\* getMoreUntilDone(url): axios.get(url) puts one more request in flight.
\* It returns the flight queue of instance i after the call, given the queue
\* before it and the options object as it is when the url is built.
GetMore(q, fields) == Append(q, fields)

\* _read(): the single-flight guard, then the first getMoreUntilDone.
Read(i) ==
  IF ReadGuard(i)
    THEN UNCHANGED << reading, flight, nreq >>
    ELSE /\ reading' = [reading EXCEPT ![i] = TRUE]
         /\ flight' = [flight EXCEPT ![i] = GetMore(@, Url(opt[i]))]
         /\ nreq' = [nreq EXCEPT ![i] = Bump(@)]

\* Readable.read(), inherited from node's Readable: a pull of the consumer
\* is handed to _read() unless push(null) has already ended the stream.
ReadableEnded(i) == eof[i] > 0

\* A pull of the consumer on instance i.
Pull(i) ==
  /\ opt[i] # NoObj
  /\ npull[i] < MaxPulls
  /\ npull' = [npull EXCEPT ![i] = @ + 1]
  /\ late' = [late EXCEPT ![i] = @ \/ eof[i] > 0 \/ errors[i] > 0]
  /\ IF ReadableEnded(i)
       THEN UNCHANGED << reading, flight, nreq >>
       ELSE Read(i)
  /\ UNCHANGED << total, params, opt, counter, emitted, eof, errors, hist, aside >>

\* ---------------------------------------------------- the response handler
\* response.data.response.docs.map(doc => { self.counter++; self.push(doc) })
CountPages(cnt, docs) == cnt + 1

Count(cnt, docs) == cnt + Len(docs)

PushedReversed(docs) == Reverse(docs)

Pushed(docs) == docs

\* if (self.counter < response.data.response.numFound)
ContinueInclusive(i, cnt, numFound) == cnt <= numFound

ContinueCaptured(i, cnt, numFound) ==
  cnt < (IF firstFound[i] = NoFound THEN numFound ELSE firstFound[i])

Continue(i, cnt, numFound) == cnt < numFound

\* self.params.cursorMark = response.data.nextCursorMark
AdoptKeep(old, next) == old

Adopt(old, next) == next

\* self.counter = 0
DoneCounterKept(cnt) == cnt

DoneCounter(cnt) == 0

\* The .then handler of axios.get for the k-th request in flight of instance
\* i, answered with the first n documents of the page the request asks for
\* and with numFound = nf.
RespondOk(i, k, n, nf) ==
  /\ k \in DOMAIN flight[i]
  /\ n \in 0..Len(StaticPage(flight[i][k]))
  /\ nf \in 0..MaxFound
  /\ LET req == flight[i][k]
         docs == SubSeq(StaticPage(req), 1, n)
         next == req.cursorMark + n
         rest == RemoveAt(flight[i], k)
         cnt == Count(counter[i], docs)
         o == opt[i]
         fields == [params[o] EXCEPT !.cursorMark = Adopt(@, next)]
     IN
       /\ emitted' = [emitted EXCEPT ![i] = @ \o Pushed(docs)]
       /\ IF Continue(i, cnt, nf)
            THEN /\ counter' = [counter EXCEPT ![i] = cnt]
                 /\ params' = [params EXCEPT ![o] = fields]
                 /\ flight' = [flight EXCEPT ![i] = GetMore(rest, fields)]
                 /\ nreq' = [nreq EXCEPT ![i] = Bump(@)]
                 /\ UNCHANGED << eof, reading >>
            ELSE /\ eof' = [eof EXCEPT ![i] = Min(@ + 1, 2)]
                 /\ counter' = [counter EXCEPT ![i] = DoneCounter(cnt)]
                 /\ reading' = [reading EXCEPT ![i] = FALSE]
                 /\ flight' = [flight EXCEPT ![i] = rest]
                 /\ UNCHANGED << params, nreq >>
       /\ firstFound' = [firstFound EXCEPT ![i] = IF @ = NoFound THEN nf ELSE @]
       /\ lastFound' = [lastFound EXCEPT ![i] = nf]
       /\ received' = [received EXCEPT ![i] = @ \o docs]
       /\ ownMark' = [ownMark EXCEPT ![i] = next]
       /\ faithful' = [faithful EXCEPT ![i] =
                         @ /\ n = Len(StaticPage(req)) /\ nf = total]
  /\ UNCHANGED << total, opt, errors, npull, late, aside >>

\* ------------------------------------------------------- the catch handler
\* .catch(error => { self.emit('error', error) }): nothing else is touched,
\* so this.reading stays set and push(null) is not called.
CatchReadingCleared(i) == FALSE

CatchReading(i) == reading[i]

CatchEofSignalled(i) == Min(eof[i] + 1, 2)

CatchEof(i) == eof[i]

\* The k-th request in flight of instance i fails (the transport rejects, or
\* the body has no response.docs and the handler throws before any push).
RespondError(i, k) ==
  /\ k \in DOMAIN flight[i]
  /\ flight' = [flight EXCEPT ![i] = RemoveAt(@, k)]
  /\ errors' = [errors EXCEPT ![i] = Min(@ + 1, 2)]
  /\ reading' = [reading EXCEPT ![i] = CatchReading(i)]
  /\ eof' = [eof EXCEPT ![i] = CatchEof(i)]
  /\ UNCHANGED << total, params, opt, counter, emitted, nreq, npull, hist, late, aside >>

\* ------------------------------------------------------------------ Next
\* By symmetry the first instance is built from o1; the second from either
\* object, so both a shared and a separate options object occur.
Construct(i) ==
  \E o \in (IF i = "s1" THEN {"o1"} ELSE Obj) : Constructor(i, o)

\* Any answer of the backend: a full or a short page, with any numFound.
Respond(i) ==
  \E k \in 1..MaxPulls, n \in 0..MaxPage, nf \in 0..MaxFound : RespondOk(i, k, n, nf)

\* The answer of a backend that serves the static result set: the full page
\* and numFound = total.
RespondStatic(i) ==
  \E k \in 1..MaxPulls :
    /\ k \in DOMAIN flight[i]
    /\ RespondOk(i, k, Len(StaticPage(flight[i][k])), total)

Fail(i) ==
  \E k \in 1..MaxPulls : RespondError(i, k)

\* One stream, any backend.
Next ==
  \/ Construct("s1")
  \/ Pull("s1")
  \/ Respond("s1")
  \/ Fail("s1")

Spec == Init /\ [][Next]_vars

\* One stream whose transport answers every request.
FairSpec == Spec /\ WF_vars(Respond("s1") \/ Fail("s1"))

\* Two streams whose fetches interleave, the backend serving static data.
PairNext ==
  \E i \in Inst :
    \/ Construct(i)
    \/ Pull(i)
    \/ RespondStatic(i)
    \/ Fail(i)

PairSpec == Init /\ [][PairNext]_vars

\* ---------------------------------------------------------------- claims
\* The page size the backend serves for the stream's requests.
R == Min(RowsParam, MaxPage)

Ceil(a, b) == (a + b - 1) \div b

Live(i) == opt[i] # NoObj

\* C1: an instance never has more than one page request in flight, and a
\* pull that arrives while a request is outstanding issues no request and
\* changes nothing of the instance's state.
C1_SingleFlight ==
  /\ [](\A i \in Inst : Len(flight[i]) <= 1)
  /\ [][\A i \in Inst :
          (flight[i] # << >> /\ npull'[i] # npull[i]) =>
            /\ flight'[i] = flight[i]
            /\ nreq'[i] = nreq[i]
            /\ reading'[i] = reading[i]
            /\ counter'[i] = counter[i]
            /\ emitted'[i] = emitted[i]
            /\ eof'[i] = eof[i]
            /\ errors'[i] = errors[i]
            /\ params' = params]_vars

\* A second pull arrived while the first page request was still outstanding.
C1_Witness ==
  /\ npull["s1"] = 2
  /\ nreq["s1"] = 1
  /\ Len(flight["s1"]) = 1

\* C2: against a backend that serves total > 0 documents in full pages of R
\* and reports numFound = total on every page, the counter after k pages is
\* k * R while more is to come (so it strictly increases), and the drained
\* stream has issued exactly ceil(total / R) requests, emitted exactly the
\* total documents and signalled end-of-data exactly once.
C2_FullDrain ==
  \A i \in Inst :
    (Live(i) /\ faithful[i] /\ total > 0) =>
      /\ eof[i] <= 1
      /\ flight[i] # << >> =>
            /\ counter[i] = (nreq[i] - 1) * R
            /\ counter[i] < total
            /\ Len(emitted[i]) = counter[i]
      /\ eof[i] = 1 =>
            /\ nreq[i] = Ceil(total, R)
            /\ Len(emitted[i]) = total
            /\ flight[i] = << >>

\* Three documents in pages of two: drained after two fetches.
C2_Witness ==
  /\ faithful["s1"]
  /\ total = 3
  /\ eof["s1"] = 1
  /\ nreq["s1"] = 2
  /\ Len(emitted["s1"]) = 3

\* C3: once a page request has failed, the documents emitted are exactly
\* those of the pages answered before it, one error has been signalled,
\* end-of-data has not been signalled, nothing is in flight, and from then
\* on no request is issued and no document is emitted, whatever is pulled.
C3_FailureMidScroll ==
  /\ [](\A i \in Inst :
          errors[i] > 0 =>
            /\ errors[i] = 1
            /\ eof[i] = 0
            /\ flight[i] = << >>
            /\ emitted[i] = received[i])
  /\ [][\A i \in Inst :
          errors[i] > 0 =>
            /\ flight'[i] = flight[i]
            /\ nreq'[i] = nreq[i]
            /\ emitted'[i] = emitted[i]
            /\ eof'[i] = eof[i]]_vars

\* The second page request failed after the first page was emitted, and the
\* consumer pulled again afterwards.
C3_Witness ==
  /\ errors["s1"] = 1
  /\ nreq["s1"] = 2
  /\ emitted["s1"] = << 1, 2 >>
  /\ late["s1"]

\* C4: the number of page requests an instance has issued never exceeds the
\* number of pulls it has received.
C4_Backpressure ==
  \A i \in Inst : nreq[i] <= npull[i]

\* C5: the emitted documents are the docs arrays of the successful pages
\* concatenated in request order; with a backend that serves the static
\* sorted result set they are the documents 1, 2, ... without duplicate or
\* gap, and all of them once the stream is drained.
C5_Ordering ==
  \A i \in Inst :
    /\ emitted[i] = received[i]
    /\ faithful[i] =>
          /\ emitted[i] = Range(1, Len(emitted[i]))
          /\ eof[i] = 1 => emitted[i] = Range(1, total)

\* A drained stream that emitted the three documents in sort order, the
\* last one from a second page.
C5_Witness ==
  /\ faithful["s1"]
  /\ eof["s1"] = 1
  /\ emitted["s1"] = << 1, 2, 3 >>
  /\ ownMark["s1"] = 3

\* C6: a stream that has started fetching and whose transport answers every
\* request eventually signals end-of-data or an error, whatever pages the
\* backend returns.
C6_Finite ==
  reading["s1"] ~> (eof["s1"] > 0 \/ errors["s1"] > 0)

C8_NotRestartable ==
  /\ [](\A i \in Inst : (eof[i] > 0 \/ errors[i] > 0) => flight[i] = << >>)
  /\ [][\A i \in Inst :
          (eof[i] > 0 \/ errors[i] > 0) =>
            /\ flight'[i] = flight[i]
            /\ nreq'[i] = nreq[i]
            /\ emitted'[i] = emitted[i]
            /\ counter'[i] = counter[i]
            /\ eof'[i] = eof[i]
            /\ errors'[i] = errors[i]]_vars

\* A finished stream that was pulled again.
C8_Witness ==
  /\ eof["s1"] = 1
  /\ late["s1"]
  /\ emitted["s1"] # << >>

\* C9: every request of an instance carries the start mark or the
\* nextCursorMark of that instance's own latest page, and the instance emits
\* the documents it would emit alone: 1, 2, ... in order.
C9_Independent ==
  \A i \in Inst :
    /\ \A k \in DOMAIN flight[i] : flight[i][k].cursorMark = ownMark[i]
    /\ emitted[i] = Range(1, Len(emitted[i]))

\* C10: when the first page reports numFound = 0 and carries no document,
\* the stream has emitted nothing, has signalled end-of-data once, has
\* nothing in flight and has issued exactly one request.
C10_EmptyResult ==
  \A i \in Inst :
    (firstFound[i] = 0 /\ received[i] = << >>) =>
      /\ emitted[i] = << >>
      /\ eof[i] = 1
      /\ flight[i] = << >>
      /\ nreq[i] = 1

\* An empty result set, drained by the first page and pulled again.
C10_Witness ==
  /\ total = 0
  /\ firstFound["s1"] = 0
  /\ eof["s1"] = 1
  /\ nreq["s1"] = 1
  /\ npull["s1"] = 2

\* C16: every page request of an instance carries sort 'docid asc' and rows
\* 1000 whatever the caller's object held; the first request carries the
\* start mark '*', and every later one the nextCursorMark of the latest
\* response.
C16_CursorChain ==
  \A i \in Inst :
    \A k \in DOMAIN flight[i] :
      /\ flight[i][k].sort = SortParam
      /\ flight[i][k].rows = RowsParam
      /\ flight[i][k].cursorMark = ownMark[i]
      /\ nreq[i] = 1 => flight[i][k].cursorMark = StartMark

\* The third request, carrying the mark returned with the second page.
C16_Witness ==
  /\ nreq["s1"] = 3
  /\ Len(received["s1"]) = 2
  /\ flight["s1"] = << [sort |-> SortParam, rows |-> RowsParam, cursorMark |-> 2] >>

\* C17: after end-of-data the counter is 0 and the fetching guard is
\* cleared; after an error the counter still holds the number of documents
\* pushed before the failure and the guard is still set.
C17_CleanupAsymmetry ==
  \A i \in Inst :
    /\ eof[i] > 0 => (counter[i] = 0 /\ ~reading[i])
    /\ errors[i] > 0 => (counter[i] = Len(emitted[i]) /\ reading[i])

\* A stream whose second request failed after a page of two documents.
C17_Witness ==
  /\ errors["s1"] > 0
  /\ eof["s1"] = 0
  /\ Len(emitted["s1"]) = 2
  /\ counter["s1"] = 2
  /\ reading["s1"]

\* ======================================================= the query compiler
\* A search descriptor, and every value inside one, is a tagged record:
\* a number, null, a mapping (its own keys in iteration order, each with its
\* value) or a list.  A query string is the sequence of its pieces; Text
\* glues them into the string itself.
Num(n) == [t |-> "num", v |-> n]

Null == [t |-> "null", v |-> 0]

Map(pairs) == [t |-> "map", v |-> pairs]

List(elems) == [t |-> "list", v |-> elems]

RECURSIVE Text(_)
Text(pieces) ==
  IF pieces = << >> THEN "" ELSE Head(pieces) \o Text(Tail(pieces))

\* A call that threw, and a call that returned a query string.
Thrown == [err |-> TRUE, out |-> << >>]

Returned(pieces) == [err |-> FALSE, out |-> pieces]

Front(seq) == SubSeq(seq, 1, Len(seq) - 1)

Last(seq) == seq[Len(seq)]

\* value.toString() of a value that is not null: the digits of a number,
\* '[object Object]' for a mapping, the elements of a list joined by ','
\* (Array.prototype.toString renders a null element as '').
RECURSIVE toString(_)
toString(value) ==
  CASE value.t = "num" -> ToString(value.v)
    [] value.t = "map" -> "[object Object]"
    [] value.t = "null" -> ""
    [] value.t = "list" ->
         IF value.v = << >> THEN ""
         ELSE IF Len(value.v) = 1 THEN toString(value.v[1])
         ELSE toString(value.v[1]) \o "," \o toString(List(Tail(value.v)))

\* `${p}:${search[p].toString()}`: calling toString on null throws.
TermCoerceNull(p, value) == Returned(<< p, ":", toString(value) >>)

Term(p, value) ==
  IF value.t = "null" THEN Thrown ELSE Returned(<< p, ":", toString(value) >>)

\* if (part) / if (subquery): a non-empty string is truthy.
KeepAlways(sub) == TRUE

Keep(sub) == sub # << >>

\* The operator handed to the recursive call of each case.
ListInnerAmbient(op) == op

ListInner(op) == "AND"

OrInnerAmbient(op) == op

OrInner(op) == "OR"

AndInner(op) == "AND"

NotInner(op) == "OR"

\* switch (p): which case a key takes.
KeyCaseAndMissing(p) ==
  IF p \in {"$or", "$not"} THEN p ELSE "default"

KeyCase(p) ==
  IF p \in {"$or", "$and", "$not"} THEN p ELSE "default"

\* negation = `NOT(${subquery})`
Negate(sub) == << "NOT(" >> \o sub \o << ")" >>

\* search = search || {}: null and 0 are falsy.
Falsy(value) == value.t = "null" \/ (value.t = "num" /\ value.v = 0)

\* operator = operator || 'AND'
Ambient(op) == IF op = "" THEN "AND" ELSE op

\* parts.join(sep)
RECURSIVE Join(_, _)
Join(parts, sep) ==
  IF parts = << >> THEN << >>
  ELSE IF Len(parts) = 1 THEN parts[1]
  ELSE parts[1] \o sep \o Join(Tail(parts), sep)

\* Lines 47-58: the query string of one level from its parts and negation.
CombineAlwaysWrap(parts, negation, op) ==
  IF parts = << >> THEN negation
  ELSE (IF negation # << >> THEN negation \o << " ", op, " ", "(" >> ELSE << "(" >>)
         \o Join(parts, << ")", " ", op, " ", "(" >>) \o << ")" >>

Combine(parts, negation, op) ==
  IF parts = << >> THEN negation
  ELSE IF Len(parts) > 1 \/ negation # << >>
    THEN (IF negation # << >> THEN negation \o << " ", op, " ", "(" >> ELSE << "(" >>)
           \o Join(parts, << ")", " ", op, " ", "(" >>) \o << ")" >>
    ELSE parts[1]

Nothing == [err |-> FALSE, parts |-> << >>, negation |-> << >>]

Threw == [err |-> TRUE, parts |-> << >>, negation |-> << >>]

RECURSIVE buildQuery(_, _)
RECURSIVE ForEach(_, _)
RECURSIVE ForIn(_, _)

\* search.forEach(...): the parts of a list, in order.
ForEach(elems, op) ==
  IF elems = << >> THEN Nothing
  ELSE LET before == ForEach(Front(elems), op)
           part == buildQuery(Last(elems), ListInner(op))
       IN IF before.err \/ part.err THEN Threw
          ELSE [before EXCEPT !.parts =
                  IF Keep(part.out) THEN Append(@, part.out) ELSE @]

\* for (const p in search) switch (p): the parts and the negation of a
\* mapping, its keys taken in iteration order.
NotCaseLeadingOnly(before, sub) ==
  IF ~Keep(sub) THEN before
  ELSE IF before.parts = << >> THEN [before EXCEPT !.negation = Negate(sub)]
  ELSE [before EXCEPT !.parts = Append(@, Negate(sub))]

NotCase(before, sub) ==
  IF Keep(sub) THEN [before EXCEPT !.negation = Negate(sub)] ELSE before

ForIn(pairs, op) ==
  IF pairs = << >> THEN Nothing
  ELSE LET before == ForIn(Front(pairs), op)
           p == Last(pairs)[1]
           value == Last(pairs)[2]
           case == KeyCase(p)
       IN IF before.err THEN Threw
          ELSE IF case = "default"
            THEN LET term == Term(p, value)
                 IN IF term.err THEN Threw
                    ELSE [before EXCEPT !.parts = Append(@, term.out)]
          ELSE LET subquery ==
                     buildQuery(value, IF case = "$or" THEN OrInner(op)
                                       ELSE IF case = "$and" THEN AndInner(op)
                                       ELSE NotInner(op))
               IN IF subquery.err THEN Threw
                  ELSE IF case = "$not" THEN NotCase(before, subquery.out)
                  ELSE IF Keep(subquery.out)
                    THEN [before EXCEPT !.parts = Append(@, subquery.out)]
                    ELSE before

\* Lines 13-45: the parts and the negation of the top level of a descriptor.
Level(descriptor, op) ==
  LET s == IF Falsy(descriptor) THEN Map(<< >>) ELSE descriptor
  IN IF s.t = "list" THEN ForEach(s.v, op)
     ELSE IF s.t = "map" THEN ForIn(s.v, op)
     ELSE Nothing

buildQuery(descriptor, op) ==
  LET level == Level(descriptor, Ambient(op))
  IN IF level.err THEN Thrown
     ELSE Returned(Combine(level.parts, level.negation, Ambient(op)))

\* ------------------------------------------------ the descriptors compiled
OnlyA == Map(<< << "a", Num(1) >> >>)

OnlyB == Map(<< << "b", Num(2) >> >>)

BothAB == Map(<< << "a", Num(1) >>, << "b", Num(2) >> >>)

\* What stands under a reserved key or in a list: the empty mapping,
\* mappings of one and two terms, a list, and a mapping with an operator of
\* its own.
Nested ==
  { Map(<< >>), OnlyA, BothAB,
    List(<< OnlyA, OnlyB >>),
    Map(<< << "$not", OnlyA >> >>) }

\* What stands under an ordinary key: a number, null, a mapping, a list.
FieldValues(k) ==
  IF k = "a" THEN { Num(1), Null, OnlyB }
  ELSE { Num(2), List(<< Num(1), Num(2) >>) }

OrdinaryKeys == { "a", "b" }

ReservedKeys == { "$or", "$and", "$not" }

Entries ==
  UNION { { << k, val >> : val \in FieldValues(k) } : k \in OrdinaryKeys }
    \cup { << k, val >> : k \in ReservedKeys, val \in Nested }

\* A mapping has each key once.
Mappings ==
  UNION { { Map(pairs) : pairs \in
              { q \in [1..n -> Entries] :
                  \A x, y \in 1..n : x # y => q[x][1] # q[y][1] } } :
          n \in 0..MaxKeys }

Lists ==
  UNION { { List(elems) : elems \in [1..n -> Nested] } : n \in 0..MaxElems }

Descriptors == Mappings \cup Lists \cup { Null }

CompileInit ==
  /\ StreamIdle
  /\ total = 0
  /\ params = [o \in Obj |-> [sort |-> "unset", rows |-> 0, cursorMark |-> NoFound]]
  /\ search \in Descriptors
  /\ operator \in { "AND", "OR" }
  /\ result = NotRun
  /\ CallIdle

\* The call buildQuery(search, operator).
Compile ==
  /\ result = NotRun
  /\ result' = buildQuery(search, operator)
  /\ UNCHANGED << streams, search, operator, single >>

CompileNext == Compile

CompileSpec == CompileInit /\ [][CompileNext]_vars

\* ====================================================== single-shot calls
\* What a callback receives as its second argument: nothing, the body of
\* the response, its docs array, or its only document.
Undefined == [kind |-> "undefined", shape |-> "none", v |-> << >>]

RawBody(body) == [kind |-> "body", shape |-> body.shape, v |-> body.docs]

DocsOf(res) == [kind |-> "docs", shape |-> "docs", v |-> res.v]

DocOf(res) == [kind |-> "doc", shape |-> "doc", v |-> << res.v[1] >>]

\* What the caller's callback does when it is invoked with (err, result).
UserThrows(err) == throws = "always" \/ (throws = "result" /\ ~err)

\* callback(err, result): one invocation of the caller's callback.
Direct(err, res) ==
  [calls |-> << [err |-> err, result |-> res] >>, threw |-> UserThrows(err)]

\* The function find hands to query.  result.response of a null body throws
\* before the caller's callback is reached.
FindCallback(err, res) ==
  IF err THEN Direct(TRUE, Undefined)
  ELSE IF res.shape = "null" THEN [calls |-> << >>, threw |-> TRUE]
  ELSE IF res.shape = "docs" THEN Direct(FALSE, DocsOf(res))
  ELSE Direct(TRUE, Undefined)

\* result.response.docs.length === 1
FindOneAcceptsSome(docs) == Len(docs) >= 1

FindOneAccepts(docs) == Len(docs) = 1

\* The function findOne hands to query.
FindOneCallback(err, res) ==
  IF err THEN Direct(TRUE, Undefined)
  ELSE IF res.shape = "null" THEN [calls |-> << >>, threw |-> TRUE]
  ELSE IF res.shape = "docs" /\ FindOneAccepts(res.v) THEN Direct(FALSE, DocOf(res))
  ELSE Direct(TRUE, Undefined)

\* The callback parameter of query, as the function called has set it.
Callback(err, res) ==
  CASE api = "query" -> Direct(err, res)
    [] api = "find" -> FindCallback(err, res)
    [] OTHER -> FindOneCallback(err, res)

\* options.rows = 1
FindOneRows(rows) == "1"

\* exports.query(search, options, callback) up to axios.get(url): the query
\* string is compiled (an exception of the compiler leaves the call), '*:*'
\* stands for an empty one, and the options are appended to the url.
QueryCall(rows) ==
  LET query == buildQuery(search, "AND")
  IN IF query.err
       THEN /\ wire' = "threw"
            /\ UNCHANGED request
       ELSE /\ wire' = "pending"
            /\ request' = [q |-> IF Keep(query.out) THEN Text(query.out) ELSE "*:*",
                            rows |-> rows]

Query ==
  /\ wire = "idle"
  /\ api' = "query"
  /\ QueryCall(given)
  /\ UNCHANGED << streams, pure, given, throws, answer, invoked >>

Find ==
  /\ wire = "idle"
  /\ api' = "find"
  /\ QueryCall(given)
  /\ UNCHANGED << streams, pure, given, throws, answer, invoked >>

FindOne ==
  /\ wire = "idle"
  /\ api' = "findOne"
  /\ QueryCall(FindOneRows(given))
  /\ UNCHANGED << streams, pure, given, throws, answer, invoked >>

\* The bodies a response may carry: none, an object without response.docs,
\* or one whose response.docs holds 0..MaxDocs documents.
Bodies ==
  { [shape |-> "null", docs |-> << >>], [shape |-> "nodocs", docs |-> << >>] }
    \cup { [shape |-> "docs", docs |-> Range(1, n)] : n \in 0..MaxDocs }

\* axios resolves the promise for a status of the 2xx range.
Statuses == { OkStatus, OkStatus + 4 }

Resolve ==
  /\ wire = "pending"
  /\ \E st \in Statuses, body \in Bodies :
       answer' = [outcome |-> "resolve", status |-> st, body |-> body]
  /\ wire' = "resolved"
  /\ UNCHANGED << streams, pure, api, given, throws, request, invoked >>

\* axios rejects the promise: no connection, or a status outside 2xx.
Reject ==
  /\ wire = "pending"
  /\ answer' = [NoAnswer EXCEPT !.outcome = "reject"]
  /\ wire' = "rejected"
  /\ UNCHANGED << streams, pure, api, given, throws, request, invoked >>

\* .then(response => ...): an exception inside the handler, the callback's
\* own included, rejects the promise the .catch is attached to.
Then ==
  /\ wire = "resolved"
  /\ LET done == IF answer.status # OkStatus
                   THEN Callback(TRUE, Undefined)
                   ELSE Callback(FALSE, RawBody(answer.body))
     IN /\ invoked' = invoked \o done.calls
        /\ wire' = IF done.threw THEN "rejected" ELSE "done"
  /\ UNCHANGED << streams, pure, api, given, throws, request, answer >>

\* .catch(error => callback(error))
Catch ==
  /\ wire = "rejected"
  /\ invoked' = invoked \o Callback(TRUE, Undefined).calls
  /\ wire' = "done"
  /\ UNCHANGED << streams, pure, api, given, throws, request, answer >>

\* The descriptors of the calls: one that compiles to a query, one that
\* compiles to '', and one the compiler throws on.
CallSearches == { OnlyA, Map(<< >>), Map(<< << "a", Null >> >>) }

CallInit ==
  /\ StreamIdle
  /\ total = 0
  /\ params = [o \in Obj |-> [sort |-> "unset", rows |-> 0, cursorMark |-> NoFound]]
  /\ search \in CallSearches
  /\ operator = "AND"
  /\ result = NotRun
  /\ api = "none"
  /\ given \in { "unset", "5" }
  /\ throws \in { "never", "result", "always" }
  /\ wire = "idle"
  /\ request = NoRequest
  /\ answer = NoAnswer
  /\ invoked = << >>

CallNext ==
  \/ Query
  \/ Find
  \/ FindOne
  \/ Resolve
  \/ Reject
  \/ Then
  \/ Catch

CallSpec == CallInit /\ [][CallNext]_vars

\* ------------------------------------------------- claims on the compiler
Compiled == result # NotRun /\ ~result.err

Pair(k, val) == << k, val >>

\* The combine rule as the specification words it.
Wrapped(part) == << "(" >> \o part \o << ")" >>

RECURSIVE Glued(_, _)
Glued(parts, op) ==
  IF Len(parts) = 1 THEN Wrapped(parts[1])
  ELSE Wrapped(parts[1]) \o << " ", op, " " >> \o Glued(Tail(parts), op)

CombineRule(parts, negation, op) ==
  IF parts = << >> /\ negation = << >> THEN << >>
  ELSE IF parts = << >> THEN negation
  ELSE IF Len(parts) = 1 /\ negation = << >> THEN parts[1]
  ELSE IF negation = << >> THEN Glued(parts, op)
  ELSE negation \o << " ", op, " " >> \o Glued(parts, op)

Example(descriptor, text) ==
  (search = descriptor /\ operator = "AND") => Text(result.out) = text

\* C11: the query string of a descriptor is '' when its level has neither
\* part nor negation, the negation alone when it has no part, the single
\* part unwrapped when there is one part and no negation, and otherwise the
\* parts, each in parentheses, joined by the ambient operator after the
\* unparenthesised negation; the six examples of the specification compile
\* to the strings it gives.
C11_CombineRule ==
  Compiled =>
    /\ LET level == Level(search, operator)
       IN Text(result.out) =
            Text(CombineRule(level.parts, level.negation, operator))
    /\ Example(Map(<< >>), "")
    /\ Example(OnlyA, "a:1")
    /\ Example(BothAB, "(a:1) AND (b:2)")
    /\ Example(Map(<< Pair("$or", List(<< OnlyA, OnlyB >>)) >>), "(a:1) OR (b:2)")
    /\ Example(Map(<< Pair("$not", OnlyA) >>), "NOT(a:1)")
    /\ Example(Map(<< Pair("$not", OnlyA), Pair("b", Num(2)) >>),
               "NOT(a:1) AND (b:2)")

\* A negation and two parts, compiled under OR.
C11_Witness ==
  /\ Compiled
  /\ search = Map(<< Pair("b", Num(2)), Pair("$not", OnlyA), Pair("a", Num(1)) >>)
  /\ operator = "OR"
  /\ Text(result.out) = "NOT(a:1) OR (b:2) OR (a:1)"

\* C12: no piece of a compiled query string is a reserved key: $or, $and
\* and $not are consumed as operators at every level and never rendered as
\* the field of a term.
C12_NoReservedMarker ==
  Compiled => \A j \in DOMAIN result.out : result.out[j] \notin ReservedKeys

\* Reserved keys at two levels, all consumed.
C12_Witness ==
  /\ Compiled
  /\ search = Map(<< Pair("$and", Map(<< Pair("$not", OnlyA) >>)),
                     Pair("$or", BothAB) >>)
  /\ Text(result.out) = "(NOT(a:1)) AND ((a:1) OR (b:2))"

\* C15: compiling a mapping in which an ordinary key maps to null, to a
\* mapping or to a list raises an error.
BadTerm(descriptor) ==
  /\ descriptor.t = "map"
  /\ \E j \in DOMAIN descriptor.v :
       /\ descriptor.v[j][1] \in OrdinaryKeys
       /\ descriptor.v[j][2].t \in { "null", "map", "list" }

C15_FailsLoudly ==
  (result # NotRun /\ BadTerm(search)) => result.err

\* The pieces of a query string outside every parenthesis.
RECURSIVE Depth(_)
Depth(pieces) ==
  IF pieces = << >> THEN 0
  ELSE Depth(Front(pieces))
         + (IF Last(pieces) \in { "(", "NOT(" } THEN 1
            ELSE IF Last(pieces) = ")" THEN 0 - 1 ELSE 0)

TopJoiners(pieces) ==
  { pieces[j] : j \in { x \in DOMAIN pieces :
                          /\ pieces[x] \in { "AND", "OR" }
                          /\ Depth(SubSeq(pieces, 1, x)) = 0 } }

InSeq(x, seq) == \E j \in DOMAIN seq : seq[j] = x

RECURSIVE NonEmpty(_)
NonEmpty(seq) ==
  IF seq = << >> THEN << >>
  ELSE IF Head(seq) = << >> THEN NonEmpty(Tail(seq))
  ELSE << Head(seq) >> \o NonEmpty(Tail(seq))

\* C18: whatever the ambient operator, the value of $or is compiled with
\* OR and the value of $and with AND and each is a part, the value of $not
\* is compiled with OR and is the negation, every element of a list is
\* compiled with AND, and the parts of a level are joined by the ambient
\* operator of that level.
C18_OperatorPropagation ==
  Compiled =>
    LET level == Level(search, operator)
        sub(val, op) == buildQuery(val, op).out
    IN /\ search.t = "map" =>
            \A j \in DOMAIN search.v :
              LET k == search.v[j][1]
                  val == search.v[j][2]
              IN /\ (k = "$or" /\ sub(val, "OR") # << >>) =>
                      InSeq(sub(val, "OR"), level.parts)
                 /\ (k = "$and" /\ sub(val, "AND") # << >>) =>
                      InSeq(sub(val, "AND"), level.parts)
                 /\ (k = "$not" /\ sub(val, "OR") # << >>) =>
                      level.negation = << "NOT(" >> \o sub(val, "OR") \o << ")" >>
       /\ search.t = "list" =>
            level.parts = NonEmpty([j \in DOMAIN search.v |-> sub(search.v[j], "AND")])
       /\ TopJoiners(result.out) \subseteq
            (IF Len(level.parts) + (IF level.negation = << >> THEN 0 ELSE 1) >= 2
               THEN { operator }
               ELSE { "AND", "OR" })

\* An $or group and an $and group side by side under the ambient OR.
C18_Witness ==
  /\ Compiled
  /\ operator = "OR"
  /\ search = Map(<< Pair("$and", BothAB), Pair("$or", BothAB) >>)
  /\ Text(result.out) = "((a:1) AND (b:2)) OR ((a:1) OR (b:2))"

\* C19: a compiled query string has no empty group '()' or 'NOT()', does
\* not start or end with an operator, and its parentheses balance.
C19_NoEmptyGroups ==
  Compiled =>
    LET out == result.out
    IN /\ \A j \in 1..(Len(out) - 1) :
            out[j] \in { "(", "NOT(" } => out[j + 1] # ")"
       /\ out # << >> =>
            /\ out[1] \notin { " ", "AND", "OR", ")" }
            /\ out[Len(out)] \notin { " ", "AND", "OR", "(", "NOT(" }
       /\ \A j \in 0..Len(out) : Depth(SubSeq(out, 1, j)) >= 0
       /\ Depth(out) = 0

\* Empty values under $or and $not next to one field term.
C19_Witness ==
  /\ Compiled
  /\ search = Map(<< Pair("$or", Map(<< >>)),
                     Pair("$not", Map(<< >>)),
                     Pair("a", Num(1)) >>)
  /\ Text(result.out) = "a:1"

\* The orders in which the keys of a mapping can be iterated.
KeyOrders(pairs) ==
  { [j \in DOMAIN pairs |-> pairs[f[j]]] :
      f \in { g \in [DOMAIN pairs -> DOMAIN pairs] :
                \A x, y \in DOMAIN pairs : x # y => g[x] # g[y] } }

Occurrences(x, seq) == Cardinality({ j \in DOMAIN seq : seq[j] = x })

SameBag(s1, s2) ==
  /\ Len(s1) = Len(s2)
  /\ \A j \in DOMAIN s1 : Occurrences(s1[j], s1) = Occurrences(s1[j], s2)

\* C20: for a mapping and any reordering of its keys the compiler fails on
\* both or on neither, yields the same negation and the same parts up to
\* their order, and puts the negation first in the query string.
C20_KeyOrder ==
  (result # NotRun /\ search.t = "map") =>
    LET mine == Level(search, operator)
    IN \A other \in KeyOrders(search.v) :
         LET its == Level(Map(other), operator)
             text == buildQuery(Map(other), operator).out
         IN /\ its.err = mine.err
            /\ its.negation = mine.negation
            /\ SameBag(its.parts, mine.parts)
            /\ (~its.err /\ its.negation # << >>) =>
                 SubSeq(text, 1, Len(its.negation)) = its.negation

\* The $not key comes last and its clause still leads.
C20_Witness ==
  /\ Compiled
  /\ search = Map(<< Pair("a", Num(1)), Pair("b", Num(2)), Pair("$not", OnlyA) >>)
  /\ Text(result.out) = "NOT(a:1) AND (a:1) AND (b:2)"

\* ---------------------------------------------- claims on single-shot calls
\* The second argument carries a result: it is neither undefined nor null.
Present(res) == res.kind # "undefined" /\ res.shape # "null"

\* C13: once a call of query, find or findOne has been answered and the
\* answer handled, the caller's callback has been invoked exactly once, with
\* an error or with a result, not with both and not with neither.
C13_ErrorFirst ==
  wire = "done" =>
    /\ Len(invoked) = 1
    /\ invoked[1].err # Present(invoked[1].result)

\* C14: the request of findOne carries rows = 1; its callback receives a
\* result only when the answer has status 200 and a docs array of exactly one
\* document, and that document is the result; an answer with no document,
\* several documents or no docs array is reported, and only as an error.
C14_FindOne ==
  api = "findOne" =>
    /\ wire \notin { "idle", "threw" } => request.rows = "1"
    /\ \A j \in DOMAIN invoked :
         ~invoked[j].err =>
           /\ answer.outcome = "resolve"
           /\ answer.status = OkStatus
           /\ answer.body.shape = "docs"
           /\ Len(answer.body.docs) = 1
           /\ invoked[j].result = DocOf(RawBody(answer.body))
    /\ ( /\ wire = "done"
         /\ answer.outcome = "resolve"
         /\ ~(answer.body.shape = "docs" /\ Len(answer.body.docs) = 1) ) =>
           /\ invoked # << >>
           /\ \A j \in DOMAIN invoked : invoked[j].err

\* findOne called with rows = 5 and answered with two documents.
C14_Witness ==
  /\ api = "findOne"
  /\ given = "5"
  /\ request = [q |-> "a:1", rows |-> "1"]
  /\ wire = "done"
  /\ answer.status = OkStatus
  /\ Len(answer.body.docs) = 2
  /\ invoked = << [err |-> TRUE, result |-> Undefined] >>

====
